---- MODULE Spec2Model ----
(***************************************************************************)
(* Model of the monster mini-application: the useMonster hook              *)
(* (src/src/hooks/useMonster.ts), the external ledger contract it binds    *)
(* to, the root controller App (src/src/App.tsx), the useStaking hook and  *)
(* the views MonsterCard and StakingPanel.                                 *)
(*                                                                         *)
(* A step of the model is one synchronous run of JavaScript between two    *)
(* awaits: the part of a handler that runs when it is called, or the       *)
(* continuation that runs when an awaited promise settles.  React state    *)
(* setters are modelled as assignments; the re-run of the effect that      *)
(* depends on isConnected is the step RunEffects.                          *)
(***************************************************************************)
EXTENDS Integers, FiniteSets, Sequences, TLC

\* ---------------------------------------------------------------- bounds
\* number of hook operations (fetches, writes) that may be in flight at once
MaxOps == 2
\* number of write operations that may be in flight at once
MaxWrites == 1
\* number of fetches not issued by a write that may be in flight at once
MaxFetches == 1
\* number of hook operations in flight at once while the controller is observed
AppMaxOps == 1
\* highest level the modelled ledger lets an entity reach (evolve reverts there)
MaxLevel == 2
\* the highest branch code the ledger reports: 0..2 are the categories, the
\* codes above stand for every other uint8 value
MaxBranchCode == 3

\* number of useStaking calls that may await their delay at once
MaxStakeCalls == 3
\* highest amount (in wei) passed to stake
MaxAmount == 1
\* highest level passed to MonsterCard (the table of costs ends at 9, the
\* levels at 10)
MaxCardLevel == 11
\* the clock is observed at the instants 0..MaxDrift ms after each sampled one
MaxDrift == 3
\* the latest instant (ms) of a lock's start and end and of the panel's clock
MaxTime == 4

\* ------------------------------------------------------------- constants
NULL == "null"
UNSET == "unset"
Branches == {"POWER", "SPEED", "BALANCE"}
\* the codes a new entity may carry before a category is selected: the zero
\* default of the uint8, or a code outside the categories
CreatedCodes == {0, MaxBranchCode}
Slots == 1..MaxOps
Writes == {"createMonster", "selectBranch", "claimDailyReward", "evolveMonster"}
Tabs == {"Monster", "Swap", "Staking"}

\* the value of useState<MonsterInfo | null>(null): null is NoMonster
NoMonster == [present |-> FALSE, level |-> 0, evolutionBranch |-> UNSET]

\* an answer of the ledger to getMonsterInfo that has not arrived
NoSnap == [st |-> "none", level |-> 0, branch |-> 0, selected |-> FALSE]

\* a free operation slot; of an operation in flight, mon0 is the monster state
\* when it was called (for a write that refetches: when its fetch was called),
\* monCall the monster state when the operation itself was called, and alone
\* tells that no other operation ran since it was called
IdleOp == [kind |-> "idle", pc |-> "idle", arg |-> "none", snap |-> NoSnap,
           mon0 |-> NoMonster, monCall |-> NoMonster, alone |-> TRUE]

\* no observable event in the last step
NoEv == [type |-> "none", kind |-> "idle", src |-> "none", arg |-> "none",
         out |-> "none", snap |-> NoSnap, mon0 |-> NoMonster,
         monCall |-> NoMonster, alone |-> TRUE, proof |-> "none"]

\* the value useStaking returns at the first render (part_001:19-22): no call
\* awaits its delay, out is what the last step of the hook returned
useStakingStart ==
  [stakeInfo |-> NULL, isLoading |-> TRUE, error |-> NULL, isConnected |-> FALSE,
   pc |-> "start", calls |-> <<>>,
   out |-> [type |-> "none", kind |-> "none", result |-> "none"]]

\* no MonsterCard, no StakingPanel is on screen; nothing was rendered earlier
NoCard == [shown |-> FALSE]
NoPanel == [shown |-> FALSE]
NoPeer == [seen |-> FALSE]

\* ------------------------------------------------ the tables of types
\* LEVEL_REWARDS with the rewards of levels 1..9 one level late
LEVEL_REWARDS_Shifted ==
  [level \in 1..10 |-> <<1, 1, 3, 5, 8, 10, 13, 15, 19, 24>>[level]]

\* LEVEL_REWARDS (types/monster.ts:52-63), in tenths of a WLDG
LEVEL_REWARDS ==
  [level \in 1..10 |-> <<1, 3, 5, 8, 10, 13, 15, 19, 24, 30>>[level]]

\* PERIOD_APY (types/staking.ts:28-33), in percent
PERIOD_APY == (30 :> 3) @@ (90 :> 5) @@ (180 :> 8) @@ (365 :> 10)

\* BRANCH_INFO (types/monster.ts:84-103): name and colour of each branch
BRANCH_INFO ==
  [branch \in Branches |->
     [name |-> branch,
      color |-> CASE branch = "POWER" -> "red"
                  [] branch = "SPEED" -> "blue"
                  [] OTHER -> "purple"]]

\* the objects the modules export, as they are when the modules are loaded
ModuleTables ==
  [LEVEL_REWARDS |-> LEVEL_REWARDS, PERIOD_APY |-> PERIOD_APY,
   BRANCH_INFO |-> BRANCH_INFO]

VARIABLES
  \* useMonster: React state
  monster, isLoading, error, isConnected,
  \* useMonster: refs
  minikitRef, providerRef, contractRef, refreshIntervalRef,
  \* useMonster: lifecycle
  mounted,      \* the component is mounted
  initPc,       \* position of initializeContract
  effectDep,    \* the isConnected value the auto refresh effect last ran with
  timers,       \* interval timers active in the window
  nextTimer,    \* next id window.setInterval returns
  ops,          \* the operations in flight
  \* environment
  env,          \* deployment configuration (import.meta.env)
  ledger,       \* the entity of the active address on the external ledger
  \* App: React state
  isWorldApp, isInitializing, activeTab, appPc, redirected,
  \* the views and the second hook of App
  staking,      \* useStaking: its React state and its calls in flight
  card,         \* MonsterCard: its props, the clock and its last render
  panel,        \* StakingPanel: its props, the clock and its last render
  peer,         \* what App rendered at an earlier moment of the run
  tables,       \* the tables exported by the modules of types
  \* observation
  ev            \* what the last step did, as seen by a caller or the ledger

hookVars == <<monster, isLoading, error, isConnected>>
refVars == <<minikitRef, providerRef, contractRef, refreshIntervalRef>>
lifeVars == <<mounted, initPc, effectDep, timers, nextTimer>>
appVars == <<isWorldApp, isInitializing, activeTab, appPc, redirected>>
viewVars == <<staking, card, panel, peer, tables>>
vars == <<monster, isLoading, error, isConnected, minikitRef, providerRef,
          contractRef, refreshIntervalRef, mounted, initPc, effectDep, timers,
          nextTimer, ops, env, ledger, isWorldApp, isInitializing, activeTab,
          appPc, redirected, staking, card, panel, peer, tables, ev>>

\* ------------------------------------------------------ pure helpers
\* branchToNumber (useMonster.ts:104)
branchToNumber(branch) ==
  CASE branch = "POWER" -> 0
    [] branch = "SPEED" -> 1
    [] branch = "BALANCE" -> 2
    [] OTHER -> 0

\* numberToBranch (useMonster.ts:120)
numberToBranch(num) ==
  CASE num = 0 -> "POWER"
    [] num = 1 -> "SPEED"
    [] num = 2 -> "BALANCE"
    [] OTHER -> "POWER"

\* the MonsterInfo built from a ledger answer (useMonster.ts:242)
monsterInfo(result) ==
  [present |-> TRUE, level |-> result.level,
   evolutionBranch |-> numberToBranch(result.branch)]

\* handleError: the message stored (useMonster.ts:161); every branch stores a
\* non-null string that starts with the message of the failing operation
handleError(message) == message


\* an operation that overlaps with another one
Overlapped(op) == [op EXCEPT !.alone = FALSE]

\* slot i takes the operation op; every operation it overlaps with is marked
Start(i, op) ==
  [j \in Slots |->
     IF j = i
       THEN IF \A k \in Slots \ {i} : ops[k].kind = "idle" THEN op ELSE Overlapped(op)
     ELSE IF ops[j].kind # "idle" THEN Overlapped(ops[j])
     ELSE ops[j]]

\* the number of operations in flight whose kind is in K
InFlight(K) == Cardinality({j \in Slots : ops[j].kind \in K})

\* the slot a new operation of the given kind takes: the lowest free one, while
\* the bounds on the operations in flight leave room
Free(i, kind) ==
  /\ ops[i].kind = "idle"
  /\ \A j \in Slots : j < i => ops[j].kind # "idle"
  /\ InFlight(Writes \cup {"fetch"}) < env.maxOps
  /\ IF kind = "fetch" THEN InFlight({"fetch"}) < env.maxFetches
      ELSE InFlight(Writes) < env.maxWrites

Finish(i) == [ops EXCEPT ![i] = IdleOp]

NewOp(kind, arg) ==
  [IdleOp EXCEPT !.kind = kind, !.arg = arg, !.mon0 = monster, !.monCall = monster]

\* the event of operation op: its call returned or threw, or it contacted the
\* ledger; src is who called it, out how it ended, proof what it submitted
Event(type, op, src, out, proof) ==
  [type |-> type, kind |-> op.kind, src |-> src, arg |-> op.arg, out |-> out,
   snap |-> op.snap, mon0 |-> op.mon0, monCall |-> op.monCall, alone |-> op.alone,
   proof |-> proof]

\* ------------------------------------------------------------- the ledger
NoEntity == [exists |-> FALSE, level |-> 0, branch |-> 0, selected |-> FALSE]

\* the answer of getMonsterInfo(account) (ABI, useMonster.ts:49): the call
\* reverts with "Monster does not exist" for an address without an entity
getMonsterInfo(l) ==
  IF l.exists
    THEN [st |-> "ok", level |-> l.level, branch |-> l.branch, selected |-> l.selected]
    ELSE [NoSnap EXCEPT !.st = "notexist"]

\* ------------------------------------------------------- fetchMonsterInfo
\* fetchGuard without the test of the contract binding
fetchGuardNoContract(c, m) == m

\* the guard of fetchMonsterInfo (useMonster.ts:220)
fetchGuard(c, m) == c /\ m

\* FetchCall without the call of clearError
FetchCallKeepsError(i, src, c, m, p) ==
  IF ~fetchGuard(c, m)
    THEN /\ isLoading' = FALSE
         /\ UNCHANGED <<monster, error, ops>>
         /\ ev' = Event("returned", NewOp("fetch", "none"), src, "skipped", "none")
    ELSE IF ~p
      THEN /\ isLoading' = FALSE
           /\ error' = handleError("fetchError")
           /\ UNCHANGED <<monster, ops>>
           /\ ev' = Event("returned", NewOp("fetch", "none"), src, "fail", "none")
      ELSE /\ Free(i, "fetch")
           /\ isLoading' = TRUE
           /\ ops' = Start(i, [NewOp("fetch", "none") EXCEPT !.pc = "query"])
           /\ UNCHANGED <<monster, error>>
           /\ ev' = Event("issued", NewOp("fetch", "none"), src, "none", "none")

\* fetchMonsterInfo up to its first await (useMonster.ts:219-234), called in
\* slot i by src with the refs c (contract), m (minikit), p (provider)
FetchCall(i, src, c, m, p) ==
  IF ~fetchGuard(c, m)
    THEN /\ isLoading' = FALSE
         /\ UNCHANGED <<monster, error, ops>>
         /\ ev' = Event("returned", NewOp("fetch", "none"), src, "skipped", "none")
    ELSE IF ~p
      THEN /\ isLoading' = FALSE
           /\ error' = handleError("fetchError")
           /\ UNCHANGED <<monster, ops>>
           /\ ev' = Event("returned", NewOp("fetch", "none"), src, "fail", "none")
      ELSE /\ Free(i, "fetch")
           /\ isLoading' = TRUE
           /\ error' = NULL
           /\ ops' = Start(i, [NewOp("fetch", "none") EXCEPT !.pc = "query"])
           /\ UNCHANGED monster
           /\ ev' = Event("issued", NewOp("fetch", "none"), src, "none", "none")

\* the monster state after the answer snap (useMonster.ts:242-260)
fetchedMonster(cur, snap) ==
  CASE snap.st = "ok" -> monsterInfo(snap)
    [] snap.st = "notexist" -> NoMonster
    [] OTHER -> cur

\* fetchedError with the "Monster does not exist" test left out
fetchedErrorNoAbsence(cur, snap) ==
  IF snap.st \in {"fail", "notexist"} THEN handleError("fetchError") ELSE cur

\* fetchedError with the catch block storing no message
fetchedErrorSilent(cur, snap) == cur

\* the error message after the answer snap (useMonster.ts:254-260)
fetchedError(cur, snap) ==
  IF snap.st = "fail" THEN handleError("fetchError") ELSE cur

\* the ledger answers the query of the fetch in slot i, or the query fails
\* (useMonster.ts:234-238); the answer reaches the hook in FetchResp
FetchQuery(i) ==
  /\ ops[i].pc = "query"
  /\ \E fails \in BOOLEAN :
       ops' = [ops EXCEPT ![i].pc = "resp",
                          ![i].snap = IF fails THEN [NoSnap EXCEPT !.st = "fail"]
                                      ELSE getMonsterInfo(ledger)]
  /\ ev' = NoEv
  /\ UNCHANGED <<hookVars, refVars, lifeVars, env, ledger, appVars, viewVars>>

\* FetchResp with a fetchMonsterInfo that throws its failure again, so that the
\* catch block of the write awaiting it runs
FetchRespRethrows(i) ==
  /\ ops[i].pc = "resp"
  /\ monster' = fetchedMonster(monster, ops[i].snap)
  /\ error' = IF ops[i].kind \in Writes /\ ops[i].snap.st = "fail"
                THEN handleError("writeError") ELSE fetchedError(error, ops[i].snap)
  /\ isLoading' = FALSE
  /\ ops' = Finish(i)
  /\ ev' = Event(IF ops[i].kind \in Writes /\ ops[i].snap.st = "fail"
                   THEN "thrown" ELSE "returned",
                 ops[i], "none", ops[i].snap.st, "none")
  /\ UNCHANGED <<isConnected, refVars, lifeVars, env, ledger, appVars, viewVars>>

\* the continuation of fetchMonsterInfo after its awaits (useMonster.ts:240-263);
\* for a fetch issued by a write, the write's own finally runs in the same step
FetchResp(i) ==
  /\ ops[i].pc = "resp"
  /\ monster' = fetchedMonster(monster, ops[i].snap)
  /\ error' = fetchedError(error, ops[i].snap)
  /\ isLoading' = FALSE
  /\ ops' = Finish(i)
  /\ ev' = Event("returned", ops[i], "none", ops[i].snap.st, "none")
  /\ UNCHANGED <<isConnected, refVars, lifeVars, env, ledger, appVars, viewVars>>

\* ------------------------------------------------------------ the effects
\* refreshCleanup with clearInterval left out
refreshCleanupNoClear(t, ref) == [timers |-> t, ref |-> 0]

\* cleanup of the auto refresh effect (useMonster.ts:445-450)
refreshCleanup(t, ref) ==
  IF ref # 0 THEN [timers |-> t \ {ref}, ref |-> 0] ELSE [timers |-> t, ref |-> ref]

\* refreshEffect starting no interval
refreshEffectNoTimer(t, ref, connected, id) == [timers |-> t, ref |-> ref]

\* body of the auto refresh effect (useMonster.ts:439-443)
refreshEffect(t, ref, connected, id) ==
  IF connected /\ ref = 0 THEN [timers |-> t \cup {id}, ref |-> id]
  ELSE [timers |-> t, ref |-> ref]

\* cleanup of the mount effect (useMonster.ts:427-432): clears, keeps the ref
mountCleanup(t, ref) == IF ref # 0 THEN t \ {ref} ELSE t

\* initializeContract up to its first await, then the first run of the auto
\* refresh effect (useMonster.ts:178-195, 421-424, 438-443)
HookMount ==
  /\ initPc = "start"
  /\ mounted
  /\ IF ~env.contractAddress
       THEN \* throw, catch, then(fetchMonsterInfo) returns at its guard
            /\ error' = handleError("initError")
            /\ isConnected' = FALSE
            /\ isLoading' = FALSE
            /\ initPc' = "done"
            /\ UNCHANGED minikitRef
            /\ ev' = Event("returned", NewOp("fetch", "none"), "init", "skipped", "none")
       ELSE /\ minikitRef' = TRUE
            /\ initPc' = "connect"
            /\ UNCHANGED <<error, isConnected, isLoading>>
            /\ ev' = NoEv
  /\ LET r == refreshEffect(timers, refreshIntervalRef, isConnected, nextTimer)
     IN /\ timers' = r.timers
        /\ refreshIntervalRef' = r.ref
        /\ nextTimer' = IF r.ref # refreshIntervalRef THEN nextTimer + 1 ELSE nextTimer
  /\ effectDep' = isConnected
  /\ UNCHANGED <<monster, providerRef, contractRef, mounted, ops, env, ledger>>


\* initializeContract after the wallet connection settled (useMonster.ts:195-205);
\* without a provider the catch runs and then(fetchMonsterInfo) returns at its guard
InitConnect ==
  /\ initPc = "connect"
  /\ \E provider \in BOOLEAN :
       IF provider
         THEN /\ providerRef' = TRUE
              /\ isConnected' = TRUE
              /\ initPc' = "signer"
              /\ UNCHANGED <<error, isLoading>>
              /\ ev' = NoEv
         ELSE /\ error' = handleError("initError")
              /\ isConnected' = FALSE
              /\ isLoading' = FALSE
              /\ initPc' = "done"
              /\ UNCHANGED providerRef
              /\ ev' = Event("returned", NewOp("fetch", "none"), "init", "skipped", "none")
  /\ UNCHANGED <<monster, minikitRef, contractRef, refreshIntervalRef, mounted,
                 effectDep, timers, nextTimer, ops, env, ledger, appVars, viewVars>>

\* initializeContract after getSigner settled (useMonster.ts:205-213), followed
\* by then(fetchMonsterInfo) (useMonster.ts:422-424)
InitSigner ==
  /\ initPc = "signer"
  /\ initPc' = "done"
  /\ \E signer \in BOOLEAN :
       IF signer
         THEN /\ contractRef' = TRUE
              /\ UNCHANGED isConnected
              /\ \E i \in Slots : FetchCall(i, "init", TRUE, minikitRef, providerRef)
         ELSE /\ error' = handleError("initError")
              /\ isConnected' = FALSE
              /\ isLoading' = FALSE
              /\ UNCHANGED <<contractRef, monster, ops>>
              /\ ev' = Event("returned", NewOp("fetch", "none"), "init", "skipped", "none")
  /\ UNCHANGED <<minikitRef, providerRef, refreshIntervalRef, mounted, effectDep,
                 timers, nextTimer, env, ledger, appVars, viewVars>>

\* React re-renders after isConnected changed and re-runs the auto refresh
\* effect: cleanup of the previous run, then the body (useMonster.ts:438-451)
RunEffects ==
  /\ mounted
  /\ effectDep # isConnected
  /\ LET c == refreshCleanup(timers, refreshIntervalRef)
         r == refreshEffect(c.timers, c.ref, isConnected, nextTimer)
     IN /\ timers' = r.timers
        /\ refreshIntervalRef' = r.ref
        /\ nextTimer' = IF r.ref # c.ref THEN nextTimer + 1 ELSE nextTimer
  /\ effectDep' = isConnected
  /\ ev' = NoEv
  /\ UNCHANGED <<hookVars, minikitRef, providerRef, contractRef, mounted, initPc,
                 ops, env, ledger, appVars, viewVars>>

\* the timers left by the cleanups React runs at unmount: the mount effect's,
\* then the auto refresh effect's (useMonster.ts:427-432, 445-450)
unmountCleanup(t, ref) == refreshCleanup(mountCleanup(t, ref), ref)

\* teardown of the component
Unmount ==
  /\ mounted
  /\ initPc # "start"
  /\ mounted' = FALSE
  /\ LET c == unmountCleanup(timers, refreshIntervalRef)
     IN /\ timers' = c.timers
        /\ refreshIntervalRef' = c.ref
  /\ ev' = NoEv
  /\ UNCHANGED <<hookVars, minikitRef, providerRef, contractRef, initPc, effectDep,
                 nextTimer, ops, env, ledger, appVars, viewVars>>

\* an active interval timer fires (useMonster.ts:440-442)
TimerTick ==
  /\ timers # {}
  /\ \E i \in Slots : FetchCall(i, "timer", contractRef, minikitRef, providerRef)
  /\ UNCHANGED <<isConnected, refVars, lifeVars, env, ledger, appVars, viewVars>>

\* refreshMonster (useMonster.ts:414-416)
refreshMonster ==
  /\ mounted
  /\ initPc # "start"
  /\ \E i \in Slots : FetchCall(i, "manual", contractRef, minikitRef, providerRef)
  /\ UNCHANGED <<isConnected, refVars, lifeVars, env, ledger, appVars, viewVars>>


\* ------------------------------------------------------- write operations
\* the message each write passes to handleError (useMonster.ts:318, 348, 376, 404)
writeError(kind) ==
  CASE kind = "createMonster" -> "createError"
    [] kind = "selectBranch" -> "selectError"
    [] kind = "claimDailyReward" -> "claimError"
    [] OTHER -> "evolveError"

\* the guard in front of the try block (useMonster.ts:272, 329, 359, 387)
writeGuard(kind, c, m) == IF kind = "createMonster" THEN c /\ m ELSE c

\* whether the contract executes the action on the entity l: an entity is
\* created once, its category is chosen once, it evolves below the top level
ledgerAccepts(kind, l) ==
  CASE kind = "createMonster" -> ~l.exists
    [] kind = "selectBranch" -> l.exists /\ ~l.selected
    [] kind = "claimDailyReward" -> l.exists
    [] OTHER -> l.exists /\ l.level < MaxLevel

\* the entity after the contract executed the action; createMonster carries no
\* category (ABI, useMonster.ts:64-74), the contract sets the code b
ledgerApply(kind, arg, l, b) ==
  CASE kind = "createMonster" ->
         [exists |-> TRUE, level |-> 1, branch |-> b, selected |-> FALSE]
    [] kind = "selectBranch" ->
         [l EXCEPT !.branch = branchToNumber(arg), !.selected = TRUE]
    [] kind = "claimDailyReward" -> l
    [] OTHER -> [l EXCEPT !.level = l.level + 1]

\* WriteFail with the catch block not rethrowing
WriteFailSwallow(i, op, out) ==
  /\ error' = handleError(writeError(op.kind))
  /\ isLoading' = FALSE
  /\ ops' = [ops EXCEPT ![i] = IdleOp]
  /\ ev' = Event("returned", op, "call", out, "none")
  /\ UNCHANGED monster

\* WriteFail with the catch block resetting the monster state
WriteFailClearsMonster(i, op, out) ==
  /\ error' = handleError(writeError(op.kind))
  /\ isLoading' = FALSE
  /\ ops' = [ops EXCEPT ![i] = IdleOp]
  /\ ev' = Event("thrown", op, "call", out, "none")
  /\ monster' = NoMonster

\* WriteFail with the catch block submitting the action again
WriteFailRetries(i, op, out) ==
  /\ ops' = [ops EXCEPT ![i].pc = "submit"]
  /\ ev' = Event("submitted", op, "call", "none", "none")
  /\ UNCHANGED <<monster, isLoading, error>>

\* WriteFail without the finally block
WriteFailKeepsLoading(i, op, out) ==
  /\ error' = handleError(writeError(op.kind))
  /\ ops' = [ops EXCEPT ![i] = IdleOp]
  /\ ev' = Event("thrown", op, "call", out, "none")
  /\ UNCHANGED <<monster, isLoading>>

\* catch and finally of a write, op being the failed call
\* (useMonster.ts:317-322, 347-352, 375-380, 403-408)
WriteFail(i, op, out) ==
  /\ error' = handleError(writeError(op.kind))
  /\ isLoading' = FALSE
  /\ ops' = [ops EXCEPT ![i] = IdleOp]
  /\ ev' = Event("thrown", op, "call", out, "none")
  /\ UNCHANGED monster

\* the proof createMonster submits for the outcome r of the identity-proof
\* capability: its result, or the zero proof when verify is missing or yields
\* nothing (useMonster.ts:296-300)
verifyResult(r) == IF r = "proof" THEN "capability" ELSE "fallback"

\* WriteCall with a guard that refuses a write while another one is in flight
WriteCallExclusive(i, kind, arg) ==
  /\ mounted
  /\ initPc # "start"
  /\ IF ~writeGuard(kind, contractRef, minikitRef)
       THEN /\ ev' = Event("thrown", NewOp(kind, arg), "call", "guard", "none")
            /\ UNCHANGED <<monster, isLoading, error, ops>>
       ELSE IF InFlight(Writes) > 0
         THEN /\ ev' = Event("thrown", NewOp(kind, arg), "call", "busy", "none")
              /\ UNCHANGED <<monster, isLoading, error, ops>>
         ELSE IF kind = "createMonster" /\ ~env.appId
           THEN /\ error' = handleError(writeError(kind))
                /\ isLoading' = FALSE
                /\ ev' = Event("thrown", NewOp(kind, arg), "call", "config", "none")
                /\ ops' = [j \in Slots |->
                             IF ops[j].kind # "idle" THEN Overlapped(ops[j]) ELSE ops[j]]
                /\ UNCHANGED monster
           ELSE /\ Free(i, kind)
                /\ isLoading' = TRUE
                /\ error' = NULL
                /\ UNCHANGED monster
                /\ IF kind = "createMonster"
                     THEN /\ ops' = Start(i, [NewOp(kind, arg) EXCEPT !.pc = "verify"])
                          /\ ev' = NoEv
                     ELSE /\ ops' = Start(i, [NewOp(kind, arg) EXCEPT !.pc = "submit"])
                          /\ ev' = Event("submitted", ops'[i], "call", "none", "none")
  /\ UNCHANGED <<isConnected, refVars, lifeVars, env, ledger, appVars, viewVars>>

\* a write is called, up to its first await (useMonster.ts:271-304, 328-340,
\* 358-368, 386-396)
WriteCall(i, kind, arg) ==
  /\ mounted
  /\ initPc # "start"
  /\ IF ~writeGuard(kind, contractRef, minikitRef)
       THEN /\ ev' = Event("thrown", NewOp(kind, arg), "call", "guard", "none")
            /\ UNCHANGED <<monster, isLoading, error, ops>>
       ELSE IF kind = "createMonster" /\ ~env.appId
         THEN /\ error' = handleError(writeError(kind))
              /\ isLoading' = FALSE
              /\ ev' = Event("thrown", NewOp(kind, arg), "call", "config", "none")
              /\ ops' = [j \in Slots |->
                           IF ops[j].kind # "idle" THEN Overlapped(ops[j]) ELSE ops[j]]
              /\ UNCHANGED monster
         ELSE /\ Free(i, kind)
              /\ isLoading' = TRUE
              /\ error' = NULL
              /\ UNCHANGED monster
              /\ IF kind = "createMonster"
                   THEN /\ ops' = Start(i, [NewOp(kind, arg) EXCEPT !.pc = "verify"])
                        /\ ev' = NoEv
                   ELSE /\ ops' = Start(i, [NewOp(kind, arg) EXCEPT !.pc = "submit"])
                        /\ ev' = Event("submitted", ops'[i], "call", "none", "none")
  /\ UNCHANGED <<isConnected, refVars, lifeVars, env, ledger, appVars, viewVars>>

\* createMonster after the identity-proof capability settled: the contract's
\* createMonster is called with the proof (useMonster.ts:296-308)
CreateVerify(i) ==
  /\ ops[i].pc = "verify"
  /\ \E r \in {"proof", "none", "throw"} :
       IF r = "throw"
         THEN WriteFail(i, ops[i], "verify")
         ELSE /\ ops' = [ops EXCEPT ![i].pc = "submit"]
              /\ ev' = Event("submitted", ops[i], "call", "none", verifyResult(r))
              /\ UNCHANGED <<monster, isLoading, error>>
  /\ UNCHANGED <<isConnected, refVars, lifeVars, env, ledger, appVars, viewVars>>

\* the submission of the write in slot i settled: accepted (tx) or rejected
\* (useMonster.ts:304, 340, 368, 396)
WriteSubmitted(i) ==
  /\ ops[i].pc = "submit"
  /\ \E accepted \in BOOLEAN :
       IF accepted
         THEN /\ ops' = [ops EXCEPT ![i].pc = "confirm"]
              /\ ev' = NoEv
              /\ UNCHANGED <<monster, isLoading, error>>
         ELSE WriteFail(i, ops[i], "rejected")
  /\ UNCHANGED <<isConnected, refVars, lifeVars, env, ledger, appVars, viewVars>>

\* fetchMonsterInfo up to its first await when a write awaits it
\* (useMonster.ts:316, 346, 374, 402): without the refs the fetch returns at
\* once and the write returns
Refetch(i) ==
  IF ~fetchGuard(contractRef, minikitRef)
    THEN /\ isLoading' = FALSE
         /\ ops' = Finish(i)
         /\ ev' = Event("returned", ops[i], "none", "skipped", "none")
         /\ UNCHANGED <<monster, error>>
    ELSE /\ isLoading' = TRUE
         /\ error' = NULL
         /\ ops' = [ops EXCEPT ![i].pc = "query", ![i].mon0 = monster]
         /\ ev' = Event("issued", ops[i], "write", "none", "none")
         /\ UNCHANGED monster

\* tx.wait() of the write in slot i settled: the ledger executed the action and
\* the write refetches, or the action reverted (useMonster.ts:311-316, 341-346,
\* 369-374, 397-402)
WriteConfirmed(i) ==
  /\ ops[i].pc = "confirm"
  /\ \/ /\ ledgerAccepts(ops[i].kind, ledger)
        /\ \E b \in CreatedCodes :
             ledger' = ledgerApply(ops[i].kind, ops[i].arg, ledger, b)
        /\ Refetch(i)
     \/ /\ WriteFail(i, ops[i], "reverted")
        /\ UNCHANGED ledger
  /\ UNCHANGED <<isConnected, refVars, lifeVars, env, appVars, viewVars>>


\* ------------------------------------------------------------ useStaking
StakeKinds == {"stake", "unstake", "claim"}
StakePeriods == {30, 90, 180, 365}

\* what a step of useStaking returned to its caller
StakingOut(type, kind, result) == [type |-> type, kind |-> kind, result |-> result]

\* the effect of useStaking at mount (part_001:25-28)
StakingMount ==
  /\ staking.pc = "start"
  /\ staking' = [staking EXCEPT !.pc = "done", !.isLoading = FALSE]

\* stake, unstake or claim up to its await (part_001:30-36, 46-50, 60-64): the
\* arguments are logged, a timer of one second is set
StakingCall(kind, amount, period) ==
  /\ staking.pc = "done"
  /\ Len(staking.calls) < MaxStakeCalls
  /\ staking' = [staking EXCEPT
                   !.isLoading = TRUE,
                   !.calls = Append(@, [kind |-> kind, amount |-> amount,
                                        period |-> period]),
                   !.out = StakingOut("called", kind, "none")]

\* StakingDone with the finally block left out
StakingDoneKeepsLoading(call) ==
  [staking EXCEPT !.calls = Tail(@),
                  !.out = StakingOut("returned", call.kind, TRUE)]

\* the delay of the oldest call in flight elapsed: it returns true and its
\* finally block runs (part_001:36-43, 50-57, 64-71)
StakingDone(call) ==
  [staking EXCEPT !.calls = Tail(@), !.isLoading = FALSE,
                  !.out = StakingOut("returned", call.kind, TRUE)]

\* the timers of the calls in flight fire in the order they were set
StakingTimer ==
  /\ staking.calls # <<>>
  /\ staking' = StakingDone(Head(staking.calls))

\* refresh (part_001:74-76)
stakingRefresh ==
  /\ staking.pc = "done"
  /\ staking' = [staking EXCEPT !.out = StakingOut("returned", "refresh", "void")]


\* ----------------------------------------------------------- MonsterCard
\* cooldownTime (MonsterCard.tsx:48, 105), in ms
CooldownTime == 24 * 60 * 60 * 1000

\* lastClaimTime is a number of seconds times 1000 (useMonster.ts:248)
LastClaimTimes == {0, 1000}

\* the instants at which the clock is read: around the end of the cooldown and
\* around one second before it
Times ==
  {l + CooldownTime + d + k :
     l \in LastClaimTimes, d \in {0 - 1001, 0 - 2}, k \in 0..MaxDrift}

CardLevels == 0..MaxCardLevel

\* canClaim with a strict comparison
canClaimStrict(now, lastClaimTime) == now > lastClaimTime + CooldownTime

\* canClaim (MonsterCard.tsx:45-50)
canClaim(now, lastClaimTime) == now >= lastClaimTime + CooldownTime

\* canEvolve with the highest level included
canEvolveInclusive(level) == level <= 10

\* canEvolve (MonsterCard.tsx:57-59)
canEvolve(level) == level < 10

\* costMap (MonsterCard.tsx:69-79), in tenths of a WLDG
costMap == <<1, 2, 3, 5, 8, 12, 18, 25, 35>>

\* amounts of wei are counted in units of 10^17 wei: one ether is 10 units
EtherUnits == 10

\* BigInt(Math.floor(cost * 10 ** 18)) for a cost given in tenths
\* (MonsterCard.tsx:84)
costInWei(tenths) == (tenths * EtherUnits) \div 10

\* formatEther (ethers): the decimal string "whole.frac" of an amount of wei
formatEther(wei) == [whole |-> wei \div EtherUnits, frac |-> wei % EtherUnits]

\* getEvolutionCost reading the cost of the next level
getEvolutionCostOfNext(level) ==
  formatEther(costInWei(IF level + 1 \in DOMAIN costMap THEN costMap[level + 1] ELSE 0))

\* getEvolutionCost (MonsterCard.tsx:67-86)
getEvolutionCost(level) ==
  formatEther(costInWei(IF level \in DOMAIN costMap THEN costMap[level] ELSE 0))

\* calculateCountdown without the test of a cooldown that is over
calculateCountdownNoClamp(now, lastClaimTime) ==
  ((lastClaimTime + CooldownTime) - now) \div 1000

\* calculateCountdown (MonsterCard.tsx:102-114), in seconds
calculateCountdown(now, lastClaimTime) ==
  LET remaining == (lastClaimTime + CooldownTime) - now
  IN IF remaining <= 0 THEN 0 ELSE remaining \div 1000

\* LEVEL_REWARDS[monsterInfo.level] (MonsterCard.tsx:146): the value of the
\* key, undefined for a level that is no key of the table
rewardLookup(table, level) ==
  IF level \in DOMAIN table THEN [defined |-> TRUE, tenths |-> table[level]]
  ELSE [defined |-> FALSE, tenths |-> 0]

\* the body of the component is evaluated (MonsterCard.tsx:142-155)
CardRender(c) ==
  [c EXCEPT !.nextReward = rewardLookup(tables.LEVEL_REWARDS, c.level),
            !.isClaimable = canClaim(c.now, c.lastClaimTime),
            !.isEvolvable = canEvolve(c.level),
            !.cost = getEvolutionCost(c.level),
            !.out = "none"]

\* the card at its first render with the given props, its effect having set
\* the countdown (MonsterCard.tsx:32-39, 129-131); countedAt is the instant at
\* which calculateCountdown last read the clock
CardStart(level, lastClaimTime, loading, now) ==
  CardRender([shown |-> TRUE, level |-> level, lastClaimTime |-> lastClaimTime,
              isLoading |-> loading, now |-> now,
              countdown |-> calculateCountdown(now, lastClaimTime),
              countedAt |-> now,
              nextReward |-> rewardLookup(tables.LEVEL_REWARDS, level),
              isClaimable |-> FALSE, isEvolvable |-> FALSE,
              cost |-> formatEther(0), out |-> "none"])

\* the parent renders the card with new props; the effect runs again when
\* lastClaimTime changed (MonsterCard.tsx:129-140)
CardProps(level, lastClaimTime, loading) ==
  /\ card.shown
  /\ <<level, lastClaimTime, loading>> # <<card.level, card.lastClaimTime, card.isLoading>>
  /\ card' = CardRender([card EXCEPT
                 !.level = level, !.lastClaimTime = lastClaimTime,
                 !.isLoading = loading,
                 !.countdown = IF lastClaimTime # card.lastClaimTime
                                 THEN calculateCountdown(card.now, lastClaimTime)
                                 ELSE @,
                 !.countedAt = IF lastClaimTime # card.lastClaimTime
                                 THEN card.now ELSE @])

\* time passes
CardClock ==
  /\ card.shown
  /\ \E t \in Times : t > card.now /\ card' = [card EXCEPT !.now = t]

\* the interval of one second fires: the countdown is set, and the card
\* renders again when its value changed (MonsterCard.tsx:134-137)
CardTick ==
  /\ card.shown
  /\ LET c == calculateCountdown(card.now, card.lastClaimTime)
     IN card' = IF c # card.countdown
                  THEN CardRender([card EXCEPT !.countdown = c,
                                               !.countedAt = card.now])
                  ELSE [card EXCEPT !.countedAt = card.now, !.out = "none"]

\* handleClaim (MonsterCard.tsx:158-166)
CardHandleClaim ==
  /\ card.shown
  /\ card' = [card EXCEPT !.out = IF ~card.isClaimable \/ card.isLoading
                                   THEN "ignored" ELSE "onClaim"]

\* handleEvolve (MonsterCard.tsx:169-177)
CardHandleEvolve ==
  /\ card.shown
  /\ card' = [card EXCEPT !.out = IF ~card.isEvolvable \/ card.isLoading
                                   THEN "ignored" ELSE "onEvolve"]


\* ---------------------------------------------------------- StakingPanel
PanelTimes == 0..MaxTime

\* the stakeInfo values passed to the panel: null (NoStake), or a lock that
\* ends no earlier than it starts
NoStake == [staked |-> FALSE, startTime |-> 0, endTime |-> 0]

StakeInfos ==
  {NoStake} \cup {i \in [staked : {TRUE}, startTime : PanelTimes, endTime : PanelTimes] :
                    i.startTime <= i.endTime}

\* the number n / d that a division of JavaScript yields; d = 0 with n < 0 is
\* -Infinity
Ratio(n, d) == IF d < 0 THEN [num |-> 0 - n, den |-> 0 - d] ELSE [num |-> n, den |-> d]

\* getProgress (StakingPanel.tsx:69-80)
getProgress(stakeInfo, now) ==
  IF ~stakeInfo.staked THEN Ratio(0, 1)
  ELSE LET totalPeriod == stakeInfo.endTime - stakeInfo.startTime
           elapsed == now - stakeInfo.startTime
       IN IF elapsed >= totalPeriod THEN Ratio(100, 1)
          ELSE Ratio(elapsed * 100, totalPeriod)

\* the panel renders at the instant now (StakingPanel.tsx:149-150)
PanelRendered(stakeInfo, now) ==
  [shown |-> TRUE, stakeInfo |-> stakeInfo, now |-> now, at |-> now,
   progress |-> getProgress(stakeInfo, now)]

\* the parent passes another stakeInfo
PanelProps(stakeInfo) ==
  /\ panel.shown
  /\ stakeInfo # panel.stakeInfo
  /\ panel' = PanelRendered(stakeInfo, panel.now)

\* time passes
PanelClock ==
  /\ panel.shown
  /\ \E t \in PanelTimes : t > panel.now /\ panel' = [panel EXCEPT !.now = t]

\* the panel renders again
PanelRender ==
  /\ panel.shown
  /\ panel.at # panel.now
  /\ panel' = PanelRendered(panel.stakeInfo, panel.now)


\* ------------------------------------------------------------------- App
\* Screen with the creation screen shown only to a disconnected hook
ScreenNotConnected(initializing, worldApp, mon, connected) ==
  IF initializing \/ worldApp = NULL THEN "Initializing"
  ELSE IF ~mon.present /\ ~connected THEN "Creation"
  ELSE IF mon.present /\ mon.evolutionBranch = UNSET THEN "CategorySelection"
  ELSE "MainTabs"

\* Screen with the category selection shown only to a connected hook
ScreenSelectionNeedsConnection(initializing, worldApp, mon, connected) ==
  IF initializing \/ worldApp = NULL THEN "Initializing"
  ELSE IF ~mon.present /\ connected THEN "Creation"
  ELSE IF mon.present /\ mon.evolutionBranch = UNSET /\ connected THEN "CategorySelection"
  ELSE "MainTabs"

\* the screen App renders (App.tsx:136-193)
Screen(initializing, worldApp, mon, connected) ==
  IF initializing \/ worldApp = NULL THEN "Initializing"
  ELSE IF ~mon.present /\ connected THEN "Creation"
  ELSE IF mon.present /\ mon.evolutionBranch = UNSET THEN "CategorySelection"
  ELSE "MainTabs"

\* the panel inside the main tabs (App.tsx:210-232)
TabContent(tab, mon) ==
  CASE tab = "Monster" -> IF mon.present THEN "MonsterCard" ELSE "Empty"
    [] tab = "Swap" -> "SwapRedirect"
    [] OTHER -> "StakingPanel"

\* Rendered with a loading screen shown while useMonster is loading
RenderedWhileLoading ==
  IF isLoading THEN "Initializing"
  ELSE Screen(isInitializing, isWorldApp, monster, isConnected)

\* what is on screen in the current state
Rendered == Screen(isInitializing, isWorldApp, monster, isConnected)

\* the variant on screen: the screen, and inside the main tabs the panel shown
Variant ==
  <<Rendered, IF Rendered = "MainTabs" THEN TabContent(activeTab, monster) ELSE "none">>

\* what App reads to choose the variant: the detection result (isInitializing,
\* isWorldApp), the presence of the monster and of its category, the tab, and
\* isConnected (App.tsx:137, 148, 178-179, 211-224)
RenderInputs ==
  [detection |-> <<isInitializing, isWorldApp>>,
   present |-> monster.present,
   category |-> (monster.present /\ monster.evolutionBranch # UNSET),
   tab |-> activeTab,
   isConnected |-> isConnected]

\* App renders; what it read and what it put on screen is kept for comparison
\* with the later renders of the run
Observe ==
  /\ mounted
  /\ peer' = [seen |-> TRUE, inputs |-> RenderInputs, variant |-> Variant,
              others |-> <<isLoading, error>>]
  /\ peer' # peer
  /\ ev' = NoEv
  /\ UNCHANGED <<hookVars, refVars, lifeVars, ops, env, ledger, appVars, staking,
                 card, panel, tables>>

\* AppMount with the failed detection stored in isWorldApp
AppMountStoresFailure ==
  /\ appPc = "start"
  /\ \E d \in {"in", "out", "throw"} :
       CASE d = "in" ->
              /\ isWorldApp' = "true"
              /\ appPc' = "wallet"
              /\ UNCHANGED <<isInitializing, redirected>>
         [] d = "out" ->
              /\ redirected' = TRUE
              /\ isWorldApp' = "false"
              /\ isInitializing' = FALSE
              /\ appPc' = "done"
         [] OTHER ->
              /\ isWorldApp' = "true"
              /\ isInitializing' = FALSE
              /\ appPc' = "done"
              /\ UNCHANGED redirected
  /\ UNCHANGED activeTab

\* checkWorldApp up to its first await (App.tsx:44-66): d is the outcome of the
\* host detection, "throw" an exception raised by it
AppMount ==
  /\ appPc = "start"
  /\ \E d \in {"in", "out", "throw"} :
       CASE d = "in" ->
              /\ isWorldApp' = "true"
              /\ appPc' = "wallet"
              /\ UNCHANGED <<isInitializing, redirected>>
         [] d = "out" ->
              /\ redirected' = TRUE
              /\ isInitializing' = FALSE
              /\ appPc' = "done"
              /\ UNCHANGED isWorldApp
         [] OTHER ->
              /\ isWorldApp' = "true"
              /\ isInitializing' = FALSE
              /\ appPc' = "done"
              /\ UNCHANGED redirected
  /\ UNCHANGED activeTab

\* React runs the effects of the first commit: useMonster's two effects and
\* App's host check (useMonster.ts:421-451, App.tsx:43-86)
Mount == HookMount /\ AppMount /\ StakingMount /\ UNCHANGED <<card, panel, peer, tables>>

\* checkWorldApp after the wallet lookup settled (App.tsx:66-82)
AppWallet ==
  /\ appPc = "wallet"
  /\ appPc' = "done"
  /\ isInitializing' = FALSE
  /\ ev' = NoEv
  /\ UNCHANGED <<hookVars, refVars, lifeVars, ops, env, ledger, isWorldApp,
                 activeTab, redirected, viewVars>>

\* a click in the tab bar, which only the main tabs show (App.tsx:236-276)
SelectTab(tab) ==
  /\ mounted
  /\ Rendered = "MainTabs"
  /\ tab # activeTab
  /\ activeTab' = tab
  /\ ev' = NoEv
  /\ UNCHANGED <<hookVars, refVars, lifeVars, ops, env, ledger, isWorldApp,
                 isInitializing, appPc, redirected, viewVars>>

\* ------------------------------------------------------- specification
\* the deployment configurations (import.meta.env) with the bounds w, f, n on
\* the writes, the fetches and the operations in flight
Envs(w, f, n) ==
  [contractAddress : BOOLEAN, appId : BOOLEAN, maxWrites : {w}, maxFetches : {f},
   maxOps : {n}]

\* the entity of the active address when the page loads: none, or one created
\* earlier whose category was not selected
Ledgers ==
  {NoEntity} \cup {ledgerApply("createMonster", "none", NoEntity, b) : b \in CreatedCodes}

\* no view is observed, useStaking is as at the first render
ViewIdle ==
  /\ staking = useStakingStart
  /\ card = NoCard
  /\ panel = NoPanel
  /\ peer = NoPeer

\* the state after the first render (useMonster.ts:140-149, App.tsx:31-34)
InitState ==
  /\ monster = NoMonster
  /\ isLoading = TRUE
  /\ error = NULL
  /\ isConnected = FALSE
  /\ minikitRef = FALSE
  /\ providerRef = FALSE
  /\ contractRef = FALSE
  /\ refreshIntervalRef = 0
  /\ mounted = TRUE
  /\ initPc = "start"
  /\ effectDep = FALSE
  /\ timers = {}
  /\ nextTimer = 1
  /\ ops = [i \in Slots |-> IdleOp]
  /\ ledger \in Ledgers
  /\ isWorldApp = NULL
  /\ isInitializing = TRUE
  /\ activeTab = "Monster"
  /\ appPc = "start"
  /\ redirected = FALSE
  /\ tables = ModuleTables
  /\ ev = NoEv

\* the operations of useMonster and the steps of the ledger
HookNext ==
  \/ InitConnect
  \/ InitSigner
  \/ RunEffects
  \/ TimerTick
  \/ refreshMonster
  \/ \E i \in Slots : FetchQuery(i)
  \/ \E i \in Slots : FetchResp(i)
  \/ \E i \in Slots, kind \in Writes, arg \in Branches :
       /\ (kind \in {"claimDailyReward", "evolveMonster"} => arg = "POWER")
       /\ WriteCall(i, kind, IF kind \in {"createMonster", "selectBranch"} THEN arg ELSE "none")
  \/ \E i \in Slots : CreateVerify(i)
  \/ \E i \in Slots : WriteSubmitted(i)
  \/ \E i \in Slots : WriteConfirmed(i)

\* the hook alone: its effects run at mount, no controller is observed
MountHook == HookMount /\ UNCHANGED <<appVars, viewVars>>

Init == InitState /\ ViewIdle /\ env \in Envs(MaxWrites, MaxFetches, MaxOps)

Next == MountHook \/ HookNext

\* useMonster while it is mounted, with every caller of its operations
Spec == Init /\ [][Next]_vars

\* useMonster with callers that do not wait for a write to return before they
\* call the next one
WritesInit == InitState /\ ViewIdle /\ env \in Envs(MaxOps, MaxFetches, MaxOps)

WritesNext ==
  \/ MountHook
  \/ InitConnect
  \/ InitSigner
  \/ RunEffects
  \/ \E i \in Slots : FetchQuery(i)
  \/ \E i \in Slots : FetchResp(i)
  \/ \E i \in Slots, kind \in Writes :
       WriteCall(i, kind, IF kind \in {"createMonster", "selectBranch"} THEN "POWER" ELSE "none")
  \/ \E i \in Slots : CreateVerify(i)
  \/ \E i \in Slots : WriteSubmitted(i)
  \/ \E i \in Slots : WriteConfirmed(i)

SpecWrites == WritesInit /\ [][WritesNext]_vars

AppInit == InitState /\ ViewIdle /\ env \in Envs(AppMaxOps, AppMaxOps, AppMaxOps)

AppNext ==
  \/ Mount
  \/ HookNext
  \/ Unmount
  \/ AppWallet
  \/ \E tab \in Tabs : SelectTab(tab)

\* the controller App with its useMonster hook, from mount to teardown
SpecApp == AppInit /\ [][AppNext]_vars

\* the values the monster state can take for App: null, or a MonsterInfo whose
\* evolutionBranch is a category or falsy (App.tsx:178-179)
Monsters ==
  {NoMonster} \cup [present : {TRUE}, level : 1..MaxLevel,
                    evolutionBranch : Branches \cup {UNSET}]

\* the hooks return new values and App renders again (App.tsx:37-38)
HookReturns ==
  /\ monster' \in Monsters
  /\ isLoading' \in BOOLEAN
  /\ error' \in {NULL, handleError("fetchError")}
  /\ isConnected' \in BOOLEAN
  /\ hookVars' # hookVars
  /\ ev' = NoEv
  /\ UNCHANGED <<refVars, lifeVars, ops, env, ledger, appVars, viewVars>>

\* the host check of App at mount (App.tsx:43-86)
RenderMount ==
  /\ AppMount
  /\ ev' = NoEv
  /\ UNCHANGED <<hookVars, refVars, lifeVars, ops, env, ledger, viewVars>>

\* App at its first render, useMonster being fully configured
RenderInit ==
  /\ InitState /\ ViewIdle
  /\ env \in Envs(AppMaxOps, AppMaxOps, AppMaxOps)
  /\ env.contractAddress /\ env.appId
  /\ ledger = NoEntity

RenderNext ==
  \/ RenderMount
  \/ HookReturns
  \/ AppWallet
  \/ \E tab \in Tabs : SelectTab(tab)
  \/ Observe

\* App as a function of what its hooks return: useMonster may return any
\* value of its result type at any moment
SpecRender == RenderInit /\ [][RenderNext]_vars

\* everything but the card
cardRest == <<hookVars, refVars, lifeVars, ops, env, ledger, appVars, staking,
              panel, peer, tables, ev>>

\* the card on screen with props of any value
CardInit ==
  /\ InitState
  /\ env \in Envs(AppMaxOps, AppMaxOps, AppMaxOps) /\ env.contractAddress /\ env.appId
  /\ ledger = NoEntity
  /\ staking = useStakingStart /\ panel = NoPanel /\ peer = NoPeer
  /\ \E level \in CardLevels, last \in LastClaimTimes, loading \in BOOLEAN, now \in Times :
       card = CardStart(level, last, loading, now)

CardNext ==
  \/ \E level \in CardLevels, last \in LastClaimTimes, loading \in BOOLEAN :
       CardProps(level, last, loading) /\ UNCHANGED cardRest
  \/ CardClock /\ UNCHANGED cardRest
  \/ CardTick /\ UNCHANGED cardRest
  \/ CardHandleClaim /\ UNCHANGED cardRest
  \/ CardHandleEvolve /\ UNCHANGED cardRest

\* MonsterCard with any props, the clock and the clicks on its buttons
SpecCard == CardInit /\ [][CardNext]_vars

\* everything but the panel
panelRest == <<hookVars, refVars, lifeVars, ops, env, ledger, appVars, staking,
               card, peer, tables, ev>>

\* the panel on screen with a stakeInfo of any value
PanelInit ==
  /\ InitState
  /\ env \in Envs(AppMaxOps, AppMaxOps, AppMaxOps) /\ env.contractAddress /\ env.appId
  /\ ledger = NoEntity
  /\ staking = useStakingStart /\ card = NoCard /\ peer = NoPeer
  /\ \E info \in StakeInfos, now \in PanelTimes : panel = PanelRendered(info, now)

PanelNext ==
  \/ \E info \in StakeInfos : PanelProps(info) /\ UNCHANGED panelRest
  \/ PanelClock /\ UNCHANGED panelRest
  \/ PanelRender /\ UNCHANGED panelRest

\* StakingPanel with any stakeInfo and the clock
SpecPanel == PanelInit /\ [][PanelNext]_vars

\* everything but the state of useStaking
stakingRest == <<hookVars, refVars, lifeVars, ops, env, ledger, appVars, card,
                 panel, peer, tables, ev>>

\* the calls the staking panel can make, with their arguments
StakingNext ==
  \/ StakingMount /\ UNCHANGED stakingRest
  \/ \E amount \in 0..MaxAmount, period \in StakePeriods :
       StakingCall("stake", amount, period) /\ UNCHANGED stakingRest
  \/ \E kind \in {"unstake", "claim"} :
       StakingCall(kind, "none", "none") /\ UNCHANGED stakingRest
  \/ StakingTimer /\ UNCHANGED stakingRest
  \/ stakingRefresh /\ UNCHANGED stakingRest

\* useStaking alone with every caller of its operations; a timer that was set
\* fires
StakingInit ==
  /\ InitState /\ ViewIdle
  /\ env \in Envs(AppMaxOps, AppMaxOps, AppMaxOps) /\ env.contractAddress /\ env.appId
  /\ ledger = NoEntity

SpecStaking ==
  StakingInit /\ [][StakingNext]_vars /\ WF_vars(StakingTimer /\ UNCHANGED stakingRest)

TypeOK ==
  /\ monster \in [present : BOOLEAN, level : 0..MaxLevel,
                  evolutionBranch : Branches \cup {UNSET}]
  /\ isLoading \in BOOLEAN /\ isConnected \in BOOLEAN
  /\ refreshIntervalRef \in 0..nextTimer
  /\ ledger.level \in 0..MaxLevel


\* ------------------------------------------------------------ properties
\* a step in which the write in slot i ends with its submission rejected or its
\* confirmation failed: it leaves the slot without having refetched
WriteRejected(i) ==
  /\ ops[i].kind \in Writes
  /\ ops[i].pc \in {"submit", "confirm"}
  /\ ops'[i].kind = "idle"

\* C1: when the ledger rejects the submission of a write or its confirmation,
\* then on return of the call the error message is non-null, isLoading is
\* false, the exception is thrown to the caller, and the monster state is the
\* one of the start of the call if no other operation was in flight
C1_RejectedWrite ==
  [][\A i \in Slots :
       WriteRejected(i) =>
         /\ ev'.type = "thrown" /\ ev'.kind = ops[i].kind
         /\ error' # NULL
         /\ ~isLoading'
         /\ (ops[i].alone => monster' = ops[i].mon0)]_vars

\* a claim of the daily reward that ran alone on a present monster was rejected
C1_Witness ==
  /\ ev.type = "thrown" /\ ev.kind = "claimDailyReward"
  /\ ev.out \in {"rejected", "reverted"}
  /\ ev.alone /\ ev.mon0.present /\ monster = ev.mon0
  /\ error # NULL /\ ~isLoading

\* a fetchMonsterInfo call (alone or awaited by a write) returned after the
\* ledger answered "Monster does not exist"
AbsenceFetched == ev.type = "returned" /\ ev.out = "notexist"

\* C2 as stated: after a fetch that met "Monster does not exist" the monster
\* state is null, the error message is null and isLoading is false
C2_Original ==
  AbsenceFetched => monster = NoMonster /\ error = NULL /\ ~isLoading

\* C2: after a fetch that met "Monster does not exist" the monster state is
\* null and isLoading is false; the error message is null if no other
\* operation ran while the fetch was in flight
C2_AbsenceFetched ==
  AbsenceFetched =>
    /\ monster = NoMonster
    /\ ~isLoading
    /\ (ev.alone => error = NULL)

\* the background refresh met "Monster does not exist" with nothing else in flight
C2_Witness ==
  /\ AbsenceFetched /\ ev.kind = "fetch" /\ ev.alone
  /\ monster = NoMonster /\ error = NULL /\ ~isLoading

\* a fetchMonsterInfo call returned after a failure other than "Monster does
\* not exist"
FetchFailed == ev.type = "returned" /\ ev.out = "fail"

\* C3 as stated: after a failed fetch the error message is non-null, the
\* monster state is the one of before the fetch and isLoading is false
C3_Original ==
  FetchFailed => error # NULL /\ monster = ev.mon0 /\ ~isLoading

\* C3: after a failed fetch the error message is non-null and isLoading is
\* false; the step of the failing fetch does not change the monster state, so
\* that the monster state is the one of before the fetch if no other operation
\* ran while the fetch was in flight
C3_FetchFailed ==
  /\ [](FetchFailed => error # NULL /\ ~isLoading /\ (ev.alone => monster = ev.mon0))
  /\ [][\A i \in Slots :
          (ops[i].pc = "resp" /\ ops[i].snap.st = "fail" /\ ops'[i].kind = "idle")
            => monster' = monster]_vars

\* a fetch that ran alone failed while a monster was held
C3_Witness ==
  /\ FetchFailed /\ ev.kind = "fetch" /\ ev.alone
  /\ ev.mon0.present /\ monster = ev.mon0 /\ error # NULL /\ ~isLoading

\* C4: after createMonster(c) succeeded (confirmed and refetched) the monster
\* state has evolutionBranch = c and isLoading is false
C4_CreateReflectsCategory ==
  (ev.type = "returned" /\ ev.kind = "createMonster" /\ ev.out = "ok") =>
    monster.present /\ monster.evolutionBranch = ev.arg /\ ~isLoading

\* C5: createMonster submits the create-entity action only with a proof that
\* the identity-proof capability returned
C5_ProofFromCapability ==
  (ev.type = "submitted" /\ ev.kind = "createMonster") => ev.proof = "capability"

\* C6: the monster state changes only in the step in which a fetch completes;
\* a write starts its fetch only from the state in which it awaits its
\* confirmation, which it reaches only from the submission, and a step that
\* throws to the caller leaves the write with no fetch
C6_NoOptimisticUpdate ==
  [][/\ monster' # monster => \E i \in Slots : ops[i].pc = "resp" /\ ops'[i].kind = "idle"
     /\ \A i \in Slots :
          /\ (ops[i].kind \in Writes /\ ops[i].pc # "query" /\ ops'[i].pc = "query")
               => (ops[i].pc = "confirm" /\ ev'.type = "issued" /\ ev'.src = "write")
          /\ (ops[i].kind \in Writes /\ ops[i].pc # "confirm" /\ ops'[i].pc = "confirm")
               => ops[i].pc = "submit"
          /\ (ops[i].kind \in Writes /\ ops'[i].pc # ops[i].pc /\ ev'.type = "thrown")
               => ops'[i].kind = "idle"]_vars

\* an evolve that ran alone returned and its refetch raised the level held
C6_Witness ==
  /\ ev.type = "returned" /\ ev.kind = "evolveMonster" /\ ev.out = "ok"
  /\ ev.alone /\ ev.mon0.present /\ monster.level = ev.mon0.level + 1

\* the hook is torn down, or it is disconnected and the auto refresh effect
\* has run for that
RefreshOff == ~mounted \/ (~isConnected /\ effectDep = isConnected)

C8_LevelMonotone ==
  [][(monster.present /\ monster'.present) => monster'.level >= monster.level]_vars

\* C9: the monster state has a category only for an entity whose category was
\* selected: a fetch of a never selected entity stores the category as unset
C9_UnselectedIsUnset ==
  (ev.type = "returned" /\ ev.out = "ok" /\ ~ev.snap.selected) =>
    monster.evolutionBranch = UNSET

\* initialization has finished and the host detection has passed
AppReady == ~isInitializing /\ isWorldApp = "true"

\* C10: once initialization has finished and host detection has passed, with
\* the monster state absent and the hook connected the creation screen is
\* rendered, whatever the selected tab
C10_CreationScreen ==
  (AppReady /\ ~monster.present /\ isConnected) => Rendered = "Creation"

\* the creation screen is shown while another tab than Monster is selected
C10_Witness ==
  /\ AppReady /\ ~monster.present /\ isConnected /\ mounted
  /\ activeTab # "Monster" /\ Rendered = "Creation"

\* C17: in useStaking stakeInfo is null, error is null and isConnected is false
\* in every state; every stake, unstake and claim that was called returns, and
\* returns true; isLoading is false once no call remains in flight; no step of
\* the hook touches the ledger or issues a query or a submission
C17_StakingStub ==
  /\ [](/\ staking.stakeInfo = NULL /\ staking.error = NULL /\ ~staking.isConnected
        /\ (staking.out.type = "returned" /\ staking.out.kind \in StakeKinds
              => staking.out.result = TRUE)
        /\ (staking.pc = "done" /\ staking.calls = <<>> => ~staking.isLoading))
  /\ [][staking' # staking => ledger' = ledger /\ ops' = ops /\ ev' = ev]_vars
  /\ [](staking.out.type = "called" => <>(staking.out.type = "returned"))

\* a stake returned true as the last of several calls in flight
C17_Witness ==
  /\ staking.out = StakingOut("returned", "stake", TRUE)
  /\ staking.calls = <<>> /\ ~staking.isLoading /\ staking.stakeInfo = NULL

\* C11: once initialization has finished and host detection has passed, with
\* the monster state present and its category unset the category-selection
\* screen is rendered, whatever the selected tab and isConnected
C11_SelectionScreen ==
  (AppReady /\ monster.present /\ monster.evolutionBranch = UNSET)
    => Rendered = "CategorySelection"

\* the selection screen is shown to a disconnected hook on another tab
C11_Witness ==
  /\ AppReady /\ monster.present /\ monster.evolutionBranch = UNSET
  /\ ~isConnected /\ activeTab = "Staking" /\ Rendered = "CategorySelection"

\* C12: when the host detection fails the redirect is performed, and from then
\* on the controller renders neither the creation screen nor the category
\* selection nor the main tabs, whatever useMonster reports
C12_HostCheckFailed ==
  /\ []((appPc = "done" /\ isWorldApp # "true") => redirected)
  /\ [](redirected => Rendered = "Initializing")
  /\ [][redirected => redirected']_vars

\* after the redirect the hook reports what would open the creation screen
C12_Witness ==
  /\ redirected /\ ~isInitializing /\ isConnected /\ ~monster.present
  /\ contractRef /\ Rendered = "Initializing"

\* two renders agree on the detection result, the presence of the monster, the
\* presence of its category and the selected tab
SameFour(a, b) ==
  /\ a.detection = b.detection /\ a.present = b.present
  /\ a.category = b.category /\ a.tab = b.tab

\* C13 as stated: two states that agree on the detection result, the presence
\* of the monster, the presence of its category and the selected tab render
\* the same variant
C13_Original ==
  (peer.seen /\ SameFour(peer.inputs, RenderInputs)) => peer.variant = Variant

\* C13: two states that agree on the detection result, the presence of the
\* monster, the presence of its category, the selected tab and isConnected
\* render the same variant, whatever isLoading and error are
C13_PureRender ==
  (peer.seen /\ peer.inputs = RenderInputs) => peer.variant = Variant

\* the main tabs were rendered twice from the same inputs, with isLoading or
\* the error message changed in between
C13_Witness ==
  /\ peer.seen /\ peer.inputs = RenderInputs /\ peer.variant = Variant
  /\ peer.others # <<isLoading, error>> /\ Rendered = "MainTabs"

\* C14: every failure of a write operation, the call without a contract
\* binding and the missing application identifier included, leaves a non-null
\* error message and isLoading false when it throws to the caller
C14_WriteFailureSurfaced ==
  (ev.type = "thrown" /\ ev.kind \in Writes) => error # NULL /\ ~isLoading

\* the write in slot i awaits its submission or its confirmation
AwaitsLedger(i) == ops[i].kind \in Writes /\ ops[i].pc \in {"submit", "confirm"}

\* C15: writes are not mutually exclusive: a write call throws to its caller
\* only for a missing binding, a missing configuration or a failure of its own
\* proof, submission or confirmation, never because another write is in
\* flight; a write that is called while another one awaits its submission or
\* confirmation is submitted to the ledger in the same step
C15_WritesNotExclusive ==
  /\ []((ev.type = "thrown" /\ ev.kind \in Writes)
         => ev.out \in {"guard", "config", "verify", "rejected", "reverted"})
  /\ [][\A i \in Slots :
          (/\ ops[i].kind = "idle"
           /\ ops'[i].kind \in Writes \ {"createMonster"}
           /\ \E j \in Slots \ {i} : AwaitsLedger(j))
            => (ev'.type = "submitted" /\ ev'.kind = ops'[i].kind)]_vars

\* evolveMonster was submitted while claimDailyReward awaited the ledger: two
\* writes are in flight
C15_Witness ==
  /\ ev.type = "submitted" /\ ev.kind = "evolveMonster"
  /\ \E i, j \in Slots :
       /\ i # j /\ AwaitsLedger(i) /\ AwaitsLedger(j)
       /\ ops[i].kind = "claimDailyReward" /\ ops[j].kind = "evolveMonster"

\* C16: a call of a write makes at most one submission: an action is submitted
\* only in the step in which a write is called or in which createMonster got
\* its proof, a call awaits a submission only once, and a failed submission or
\* confirmation ends the call with nothing submitted again
C16_NoResubmission ==
  [][/\ ev'.type = "submitted" =>
          \E i \in Slots :
            /\ ops'[i].pc = "submit"
            /\ ops[i].kind = "idle" \/ ops[i].pc = "verify"
     /\ \A i \in Slots :
          /\ (ops[i].kind \in Writes /\ ops'[i].pc = "submit")
               => ops[i].pc \in {"verify", "submit"}
          /\ (ops[i].kind \in Writes /\ ops'[i].pc = "verify") => ops[i].pc = "verify"
          /\ WriteRejected(i) => ev'.type = "thrown"]_vars

\* the submission of selectBranch was rejected and nothing is in flight
C16_Witness ==
  /\ ev.type = "thrown" /\ ev.kind = "selectBranch" /\ ev.out = "rejected"
  /\ \A i \in Slots : ops[i].kind = "idle"

\* C18: canClaim is true exactly when now >= lastClaimTime + 86,400,000, and
\* the card invokes onClaim only when canClaim is true and isLoading is false
C18_CanClaim ==
  card.shown =>
    /\ canClaim(card.now, card.lastClaimTime)
         <=> (card.now >= card.lastClaimTime + 86400000)
    /\ card.out = "onClaim"
         => (card.now >= card.lastClaimTime + 86400000 /\ ~card.isLoading)

\* onClaim was invoked at the very end of the cooldown
C18_Witness ==
  /\ card.shown /\ card.out = "onClaim" /\ ~card.isLoading
  /\ card.now = card.lastClaimTime + 86400000

\* the table of costs of the claim, in tenths
C20_Table == <<1, 2, 3, 5, 8, 12, 18, 25, 35>>

\* C20: the evolution cost of a level is the value of the table for the levels
\* 1..9 (0.1, 0.2, 0.3, 0.5, 0.8, 1.2, 1.8, 2.5, 3.5) and 0 for every other
\* level, the level 10 and the levels below 1 and above 10 included
C20_EvolutionCost ==
  card.shown =>
    10 * card.cost.whole + card.cost.frac
      = (IF card.level \in 1..9 THEN C20_Table[card.level] ELSE 0)

\* the card was given level 10 after level 9: its cost is 0.0 and its evolve
\* handler ignores the click
C20_Witness ==
  /\ card.shown /\ card.level = 10 /\ card.cost = [whole |-> 0, frac |-> 0]
  /\ card.out = "ignored" /\ ~card.isLoading /\ card.isClaimable

\* C19: the progress of a lock is 0 when now < start, 100 when now >= end and
\* 100 * (now - start) / (end - start) otherwise, and it lies in 0..100
C19_Progress ==
  (panel.shown /\ panel.stakeInfo.staked) =>
    LET p == panel.progress
        start == panel.stakeInfo.startTime
        end == panel.stakeInfo.endTime
        now == panel.at
    IN /\ p.den > 0
       /\ 0 <= p.num /\ p.num <= 100 * p.den
       /\ now < start => p.num = 0
       /\ now >= end => p.num = 100 * p.den
       /\ (start <= now /\ now < end)
            => p.num * (end - start) = 100 * (now - start) * p.den


\* C22 as stated: the countdown kept by MonsterCard is max(0, lastClaimTime +
\* 24 h - now) in whole seconds rounded down, never negative, 0 whenever
\* canClaim is true and greater than 0 whenever canClaim is false
C22_Original ==
  card.shown =>
    LET rem == (card.lastClaimTime + 86400000) - card.countedAt
    IN /\ card.countdown = (IF rem > 0 THEN rem ELSE 0) \div 1000
       /\ card.countdown >= 0
       /\ canClaim(card.countedAt, card.lastClaimTime) => card.countdown = 0
       /\ ~canClaim(card.countedAt, card.lastClaimTime) => card.countdown > 0

\* C22 (amended): the countdown kept by MonsterCard is max(0, lastClaimTime +
\* 24 h - now) in whole seconds rounded down, never negative, 0 whenever
\* canClaim is true, greater than 0 whenever at least one whole second of the
\* cooldown remains, and 0 with canClaim false in the last second before the
\* cooldown ends
C22_Countdown ==
  card.shown =>
    LET rem == (card.lastClaimTime + 86400000) - card.countedAt
    IN /\ card.countdown = (IF rem > 0 THEN rem ELSE 0) \div 1000
       /\ card.countdown >= 0
       /\ canClaim(card.countedAt, card.lastClaimTime) => card.countdown = 0
       /\ rem >= 1000 => card.countdown > 0
       /\ (rem > 0 /\ rem < 1000) =>
            card.countdown = 0 /\ ~canClaim(card.countedAt, card.lastClaimTime)

\* the interval fired in the last second of the cooldown, after the countdown
\* had shown one second or more
C22_Witness ==
  /\ card.shown
  /\ card.countdown = 0
  /\ ~canClaim(card.countedAt, card.lastClaimTime)
  /\ card.countedAt < card.now
  /\ ~card.isClaimable

C21_Configured == <<1, 3, 5, 8, 10, 13, 15, 19, 24, 30>>

\* C21: at every level 1..10 the reward MonsterCard looks up in LEVEL_REWARDS
\* is the configured one (0.1, 0.3, 0.5, 0.8, 1.0, 1.3, 1.5, 1.9, 2.4, 3.0 WLDG),
\* the same at every render, and no step changes LEVEL_REWARDS, PERIOD_APY or
\* BRANCH_INFO
C21_RewardTable ==
  /\ [](/\ DOMAIN tables.LEVEL_REWARDS = 1..10
        /\ \A level \in 1..10 : tables.LEVEL_REWARDS[level] = C21_Configured[level]
        /\ (card.shown /\ card.level \in 1..10) =>
              card.nextReward = [defined |-> TRUE, tenths |-> C21_Configured[card.level]])
  /\ [][/\ tables'.LEVEL_REWARDS = tables.LEVEL_REWARDS
         /\ tables'.PERIOD_APY = tables.PERIOD_APY
         /\ tables'.BRANCH_INFO = tables.BRANCH_INFO]_vars

\* the card looked the reward of level 10 up at a render after the first one
C21_Witness ==
  /\ card.shown /\ card.level = 10
  /\ card.nextReward = [defined |-> TRUE, tenths |-> 30]
  /\ card.countedAt < card.now /\ card.out = "onClaim"


\* initializeContract has ended in its catch block: the address is not
\* configured, no wallet provider was obtained, or getSigner failed
InitFailed == initPc = "done" /\ ~contractRef

C25_OneTimer ==
  /\ []((mounted /\ isConnected /\ effectDep = isConnected) =>
          (Cardinality(timers) = 1 /\ timers = {refreshIntervalRef}))
  /\ [](Cardinality(timers) <= 1)
  /\ [][ev'.src = "timer" => Cardinality(timers) = 1]_vars

\* the one timer of a connected hook issued a fetch
C25_Witness ==
  /\ mounted /\ isConnected /\ effectDep = isConnected
  /\ timers = {refreshIntervalRef} /\ refreshIntervalRef # 0
  /\ ev.type = "issued" /\ ev.src = "timer"


\* C26: isLoading is true in every state in which a write is in flight
\* (submitted, awaiting its confirmation or refetching), whatever other
\* operation starts or completes meanwhile
C26_LoadingDuringWrite ==
  (\E i \in Slots :
     ops[i].kind \in Writes /\ ops[i].pc \in {"submit", "confirm", "query", "resp"})
    => isLoading


\* initialization and the first fetch attempt have finished and no fetch and no
\* write is in flight
Quiescent == initPc = "done" /\ \A i \in Slots : ops[i].kind = "idle"

\* C27: whenever initialization and the first fetch attempt have finished and
\* no fetch and no write is in flight, isLoading is false
C27_LoadingCleared == Quiescent => ~isLoading

\* a write that overlapped with a fetch was the last operation to end, and it
\* ended rejected
C27_Witness ==
  /\ Quiescent /\ ~isLoading
  /\ ev.type = "thrown" /\ ev.out \in {"rejected", "reverted"} /\ ~ev.alone


\* C28: isConnected is true only in states in which the contract binding
\* exists, so that a createMonster called from the creation screen never
\* throws the not-connected error of its guard
C28_ConnectedHasContract ==
  /\ isConnected => contractRef
  /\ (Rendered = "Creation" /\ ev.type = "thrown" /\ ev.kind = "createMonster")
       => ev.out # "guard"


\* a write returned after the ledger executed its action and its refetch failed
RefetchFailed == ev.type = "returned" /\ ev.kind \in Writes /\ ev.out = "fail"

\* a step in which the write in slot i ends
WriteEnds(i) == ops[i].kind \in Writes /\ ops'[i].kind = "idle"

\* C29 as stated: a write throws exactly when its verification, submission or
\* confirmation failed or it stopped at a precondition; when its refetch fails
\* it returns, the error message is non-null and the monster state is the one
\* of before the write
C29_Original ==
  /\ [](RefetchFailed => error # NULL /\ monster = ev.monCall)
  /\ [][\A i \in Slots :
          WriteEnds(i) =>
            /\ ev'.type = "thrown" <=> ops[i].pc \in {"verify", "submit", "confirm"}
            /\ ev'.type = "returned" <=> ops[i].pc = "resp"]_vars

\* C29 (amended): a write throws exactly when its verification, submission or
\* confirmation failed or it stopped at a precondition; when its refetch fails
\* it returns, the error message is non-null, and the failing refetch does not
\* change the monster state, so that the monster state is the one of before
\* the write if no other operation ran while the write was in flight
C29_RefetchFailure ==
  /\ [](RefetchFailed => error # NULL /\ (ev.alone => monster = ev.monCall))
  /\ []((ev.kind \in Writes /\ ev.type = "thrown") =>
          ev.out \in {"guard", "config", "verify", "rejected", "reverted"})
  /\ [][\A i \in Slots :
          WriteEnds(i) =>
            /\ ev'.type = "thrown" <=> ops[i].pc \in {"verify", "submit", "confirm"}
            /\ ev'.type = "returned" <=> ops[i].pc = "resp"
            /\ (ops[i].pc = "resp" /\ ops[i].snap.st = "fail") => monster' = monster]_vars

\* an evolve that ran alone was executed by the ledger, its refetch failed, and
\* the monster state still shows the level of before the write
C29_Witness ==
  /\ RefetchFailed /\ ev.kind = "evolveMonster" /\ ev.alone
  /\ ev.monCall.present /\ monster = ev.monCall /\ error # NULL
  /\ ledger.level = monster.level + 1


\* a step in which initializeContract ends in its catch block
InitFails == initPc # "done" /\ initPc' = "done" /\ ~contractRef'

\* a step in which a fetch fails or a write throws to its caller
OperationFails ==
  \/ ev'.type = "thrown"
  \/ ev'.type = "returned" /\ ev'.out = "fail"

\* C30: the step in which a fetch or a write passes its guard and starts
\* clears the error message, and only an operation that started contacts the
\* ledger; the error message becomes non-null, or another message, only in a
\* step in which initialization, a fetch or a write fails; after a fetch that
\* succeeded with no other operation in flight the error message is null
C30_ErrorCleared ==
  /\ [][\A i \in Slots :
          /\ (ops[i].kind = "idle" /\ ops'[i].kind # "idle") => error' = NULL
          /\ (ops[i].kind \in Writes /\ ops[i].pc = "confirm" /\ ops'[i].pc = "query")
               => error' = NULL]_vars
  /\ [][ev'.type \in {"issued", "submitted"} =>
          \E i \in Slots : ops'[i].kind = ev'.kind /\ ops'[i].pc \in {"submit", "query"}]_vars
  /\ [][(error' # NULL /\ error' # error) => (InitFails \/ OperationFails)]_vars
  /\ []((ev.type = "returned" /\ ev.kind = "fetch" /\ ev.out = "ok" /\ ev.alone)
          => error = NULL)

\* a fetch that ran alone succeeded on an existing entity: no message is left
C30_Witness ==
  /\ ev.type = "returned" /\ ev.kind = "fetch" /\ ev.out = "ok" /\ ev.alone
  /\ error = NULL /\ monster.present /\ initPc = "done"
====
